---- MODULE Spec2Model ----
(***************************************************************************)
(* Model of the sonar relay (src/server.py) and of the sonar publisher     *)
(* loop (src/pi_sender.py).                                                *)
(*                                                                         *)
(* The relay is an asyncio program: one handler coroutine per websocket    *)
(* connection, scheduled cooperatively.  A step of the model is the code a *)
(* handler runs between two suspension points (await ws.accept(), await    *)
(* ws.receive_text(), await v.send_text(), and a blocked lock acquire).    *)
(* The publisher is one sequential process plus its signal handler.        *)
(***************************************************************************)
EXTENDS Integers, Sequences, FiniteSets

\* ---------------------------------------------------------------- bounds
NumConns == 4
MaxMsgs == 2
MaxFaults == 1

\* connections are numbered in the order the relay accepts them
ConnIds == 1..NumConns
NoTask == 0

VARIABLES
    \* ---- relay (src/server.py)
    viewers,      \* ConnectionManager.viewers: list of connections
    publishers,   \* ConnectionManager.publishers: list of connections
    lockHolder,   \* ConnectionManager.lock: the task holding it, or NoTask
    lockWaiters,  \* ConnectionManager.lock: FIFO of tasks blocked in acquire
    role,         \* the endpoint each connection came in on
    pc,           \* position of each connection's handler coroutine
    alive,        \* whether the peer of each connection is still there
    data,         \* websocket_publisher: the text last received
    snapshot,     \* broadcast_to_viewers: list(self.viewers)
    idx,          \* broadcast_to_viewers: position of the for loop
    nrecv,        \* number of texts each handler's receive_text has returned
    sendLog       \* every v.send_text call so far, in order, with its outcome

VARIABLES
    regAtBc,  \* history: the viewers list when a broadcast took the lock
    bcLog     \* history: every broadcast that took the lock, in order, with the
              \* message it carries and the viewers list it found

relayVars == <<viewers, publishers, lockHolder, lockWaiters, role, pc, alive, data,
               snapshot, idx, nrecv, sendLog, regAtBc, bcLog>>

VARIABLES
    \* ---- publisher (src/pi_sender.py)
    ppc,                      \* position of the process
    running,                  \* the module-level stop flag
    consecutive_failures,     \* main's counter
    maxFailures,              \* MAX_CONSECUTIVE_FAILURES as configured
    pinsSetUp,                \* how many GPIO pins GPIO.setup has claimed
    cleaned,                  \* whether GPIO.cleanup() has been executed
    payload,                  \* the payload of the cycle in progress
    outcome,                  \* what the HTTP POST of this cycle met
    ok,                       \* main's `ok`
    sleeps,                   \* history: the time.sleep calls of the cycle, in order
    cfBefore,                 \* history: the counter before `if ok:`
    cfAfter,                  \* history: the counter after the if/else on `ok`
    exitPath,                 \* history: why the process left its loop or ended
    afterStop                 \* history: what started while the stop flag was set

pubVars == <<ppc, running, consecutive_failures, maxFailures, pinsSetUp, cleaned,
             payload, outcome, ok, sleeps, cfBefore, cfAfter, exitPath, afterStop>>

vars == <<relayVars, pubVars>>

\* ------------------------------------------------------------ list helpers
\* Python's `x in list`
InList(s, c) == \E i \in 1..Len(s) : s[i] = c

\* Python's list.remove(x) guarded by `if x in list`: drops the first occurrence
RemoveFirst(s, c) ==
    IF InList(s, c)
    THEN LET i == CHOOSE k \in 1..Len(s) : s[k] = c /\ \A j \in 1..(k - 1) : s[j] # c
         IN  SubSeq(s, 1, i - 1) \o SubSeq(s, i + 1, Len(s))
    ELSE s

RECURSIVE Sum(_, _)
Sum(f, S) == IF S = {} THEN 0
             ELSE LET x == CHOOSE y \in S : TRUE IN f[x] + Sum(f, S \ {x})

\* the bounds of the model: messages received by the relay in all, and
\* connections whose peer has gone away or sent a bad frame
MsgsSoFar == Sum(nrecv, ConnIds)
FaultsSoFar == Cardinality({c \in ConnIds : ~alive[c]})

\* the relay never looks into a message: the texts the publishers send are
\* taken to be all different, the k-th message the relay receives being k
NextText == MsgsSoFar + 1

\* ------------------------------------------------------------ asyncio.Lock
\* an acquire() that never waits
LockIgnored == TRUE

\* acquire() returns at once only when the lock is free and nobody waits
LockFree == lockHolder = NoTask /\ lockWaiters = <<>>

\* release(): the lock goes to the first waiter, if any
HolderAfterRelease(w) == IF w = <<>> THEN NoTask ELSE Head(w)
WaitersAfterRelease(w) == IF w = <<>> THEN <<>> ELSE Tail(w)

Granted(t) == lockHolder = t /\ ~InList(lockWaiters, t)

\* ------------------------------------------------- ConnectionManager parts
\* connect_viewer / connect_publisher: list.append(ws)
Register(list, ws) == Append(list, ws)

\* a disconnect that pops the newest entry instead of removing ws
DeregisterNewest(list, ws) ==
    IF list = <<>> THEN list ELSE SubSeq(list, 1, Len(list) - 1)

\* disconnect: `if ws in self.viewers: self.viewers.remove(ws)` (same for publishers)
Deregister(list, ws) == RemoveFirst(list, ws)

\* a broadcast that skips the first registered viewer
SnapshotSkipsFirst(vs) == IF vs = <<>> THEN vs ELSE Tail(vs)

\* broadcast_to_viewers: list(self.viewers), the copy the for loop walks
Snapshot(vs) == vs

\* broadcast_to_viewers: the argument of v.send_text
SendArgFirst(message) == 1

SendArg(message) == message

\* v.send_text raises when the peer is gone
SendOk(v) == alive[v]

SendRecord(p, v, success) ==
    [by |-> p, n |-> nrecv[p], to |-> v, text |-> SendArg(data[p]), ok |-> success]

\* the connection the relay accepts next
NextToAccept(c) ==
    /\ pc[c] = "connecting"
    /\ \A d \in ConnIds : d < c => pc[d] # "connecting"

\* ---- connect_viewer: await ws.accept(); async with self.lock: viewers.append(ws)
ConnectViewer(c) ==
    /\ NextToAccept(c)
    /\ role' = [role EXCEPT ![c] = "viewer"]
    /\ IF LockFree
       THEN /\ viewers' = Register(viewers, c)
            /\ pc' = [pc EXCEPT ![c] = "receiving"]
            /\ UNCHANGED lockWaiters
       ELSE /\ lockWaiters' = Append(lockWaiters, c)
            /\ pc' = [pc EXCEPT ![c] = "reg_wait"]
            /\ UNCHANGED viewers
    /\ UNCHANGED <<publishers, lockHolder, alive, data, snapshot, idx, nrecv, sendLog>>
    /\ UNCHANGED <<regAtBc, bcLog>>
    /\ UNCHANGED pubVars

\* ---- connect_publisher: await ws.accept(); async with self.lock: publishers.append(ws)
ConnectPublisher(c) ==
    /\ NextToAccept(c)
    /\ role' = [role EXCEPT ![c] = "publisher"]
    /\ IF LockFree
       THEN /\ publishers' = Register(publishers, c)
            /\ pc' = [pc EXCEPT ![c] = "receiving"]
            /\ UNCHANGED lockWaiters
       ELSE /\ lockWaiters' = Append(lockWaiters, c)
            /\ pc' = [pc EXCEPT ![c] = "reg_wait"]
            /\ UNCHANGED publishers
    /\ UNCHANGED <<viewers, lockHolder, alive, data, snapshot, idx, nrecv, sendLog>>
    /\ UNCHANGED <<regAtBc, bcLog>>
    /\ UNCHANGED pubVars

\* ---- connect_*: the blocked acquire returns; append and release
RegisterGranted(c) ==
    /\ pc[c] = "reg_wait"
    /\ Granted(c)
    /\ viewers' = IF role[c] = "viewer" THEN Register(viewers, c) ELSE viewers
    /\ publishers' = IF role[c] = "publisher" THEN Register(publishers, c) ELSE publishers
    /\ lockHolder' = HolderAfterRelease(lockWaiters)
    /\ lockWaiters' = WaitersAfterRelease(lockWaiters)
    /\ pc' = [pc EXCEPT ![c] = "receiving"]
    /\ UNCHANGED <<alive, data, snapshot, idx, nrecv, sendLog>>
    /\ UNCHANGED <<regAtBc, bcLog>>
    /\ UNCHANGED role
    /\ UNCHANGED pubVars

\* ---- the peer of an accepted connection goes away
Drop(c) ==
    /\ pc[c] \notin {"connecting", "closed", "crashed"}
    /\ alive[c]
    /\ FaultsSoFar < MaxFaults
    /\ alive' = [alive EXCEPT ![c] = FALSE]
    /\ UNCHANGED <<viewers, publishers, lockHolder, lockWaiters, pc, data, snapshot,
                   idx, nrecv, sendLog>>
    /\ UNCHANGED <<regAtBc, bcLog>>
    /\ UNCHANGED role
    /\ UNCHANGED pubVars

\* ---- websocket_*: receive_text raises WebSocketDisconnect; disconnect(ws)
RecvDisconnect(c) ==
    /\ pc[c] = "receiving"
    /\ ~alive[c]
    /\ IF LockFree
       THEN /\ viewers' = Deregister(viewers, c)
            /\ publishers' = Deregister(publishers, c)
            /\ pc' = [pc EXCEPT ![c] = "closed"]
            /\ UNCHANGED lockWaiters
       ELSE /\ lockWaiters' = Append(lockWaiters, c)
            /\ pc' = [pc EXCEPT ![c] = "dereg_wait"]
            /\ UNCHANGED <<viewers, publishers>>
    /\ UNCHANGED <<lockHolder, alive, data, snapshot, idx, nrecv, sendLog>>
    /\ UNCHANGED <<regAtBc, bcLog>>
    /\ UNCHANGED role
    /\ UNCHANGED pubVars

\* ---- websocket_*: receive_text raises something that is no WebSocketDisconnect
\* (a binary frame has no "text" key): the handler ends without disconnect(ws)
RecvOtherError(c) ==
    /\ pc[c] = "receiving"
    /\ alive[c]
    /\ FaultsSoFar < MaxFaults
    /\ pc' = [pc EXCEPT ![c] = "crashed"]
    /\ alive' = [alive EXCEPT ![c] = FALSE]
    /\ UNCHANGED <<viewers, publishers, lockHolder, lockWaiters, data, snapshot, idx,
                   nrecv, sendLog>>
    /\ UNCHANGED <<regAtBc, bcLog>>
    /\ UNCHANGED role
    /\ UNCHANGED pubVars

\* ---- websocket_viewer: the send_text calls made for a text received from a
\* viewer.  The loop body is the bare `await ws.receive_text()`: none.
ViewerTextEchoed(c, message) ==
    <<[by |-> c, n |-> nrecv[c] + 1, to |-> c, text |-> message, ok |-> TRUE]>>

ViewerTextSends(c, message) == <<>>

\* ---- websocket_viewer: a text frame from a viewer is read and dropped
ViewerMessage(c) ==
    /\ role[c] = "viewer"
    /\ pc[c] = "receiving"
    /\ alive[c]
    /\ MsgsSoFar < MaxMsgs
    /\ nrecv' = [nrecv EXCEPT ![c] = @ + 1]
    /\ sendLog' = sendLog \o ViewerTextSends(c, NextText)
    /\ UNCHANGED <<viewers, publishers, lockHolder, lockWaiters, pc, alive, data,
                   snapshot, idx>>
    /\ UNCHANGED <<regAtBc, bcLog>>
    /\ UNCHANGED role
    /\ UNCHANGED pubVars

\* a broadcast that copies the list under the lock and sends after releasing it
BroadcastEnterUnlocked(p, w) ==
    /\ snapshot' = [snapshot EXCEPT ![p] = Snapshot(viewers)]
    /\ regAtBc' = [regAtBc EXCEPT ![p] = viewers]
    /\ bcLog' = Append(bcLog, [by |-> p, n |-> nrecv'[p], text |-> data'[p],
                               reg |-> viewers])
    /\ idx' = [idx EXCEPT ![p] = 1]
    /\ lockHolder' = HolderAfterRelease(w)
    /\ lockWaiters' = WaitersAfterRelease(w)
    /\ pc' = [pc EXCEPT ![p] = IF Snapshot(viewers) = <<>> THEN "receiving"
                                                          ELSE "sending"]

\* ---- broadcast_to_viewers, lock just taken by p with waiters w left behind it:
\* copy the list; with nobody to send to the lock is released at once
BroadcastEnter(p, w) ==
    /\ snapshot' = [snapshot EXCEPT ![p] = Snapshot(viewers)]
    /\ regAtBc' = [regAtBc EXCEPT ![p] = viewers]
    /\ bcLog' = Append(bcLog, [by |-> p, n |-> nrecv'[p], text |-> data'[p],
                               reg |-> viewers])
    /\ idx' = [idx EXCEPT ![p] = 1]
    /\ IF Snapshot(viewers) = <<>>
       THEN /\ lockHolder' = HolderAfterRelease(w)
            /\ lockWaiters' = WaitersAfterRelease(w)
            /\ pc' = [pc EXCEPT ![p] = "receiving"]
       ELSE /\ lockHolder' = p
            /\ lockWaiters' = w
            /\ pc' = [pc EXCEPT ![p] = "sending"]

\* ---- websocket_publisher: data = await ws.receive_text();
\*      await manager.broadcast_to_viewers(data)
PublisherMessage(p) ==
    /\ role[p] = "publisher"
    /\ pc[p] = "receiving"
    /\ alive[p]
    /\ MsgsSoFar < MaxMsgs
    /\ data' = [data EXCEPT ![p] = NextText]
    /\ nrecv' = [nrecv EXCEPT ![p] = @ + 1]
    /\ IF LockFree
       THEN BroadcastEnter(p, <<>>)
       ELSE /\ lockWaiters' = Append(lockWaiters, p)
            /\ pc' = [pc EXCEPT ![p] = "bc_wait"]
            /\ UNCHANGED <<lockHolder, snapshot, idx, regAtBc, bcLog>>
    /\ UNCHANGED <<viewers, publishers, alive, sendLog>>
    /\ UNCHANGED role
    /\ UNCHANGED pubVars

\* ---- broadcast_to_viewers: the blocked acquire returns
BroadcastGranted(p) ==
    /\ pc[p] = "bc_wait"
    /\ Granted(p)
    /\ UNCHANGED <<viewers, publishers, alive, data, nrecv, sendLog>>
    /\ BroadcastEnter(p, lockWaiters)
    /\ UNCHANGED role
    /\ UNCHANGED pubVars

\* ---- broadcast_to_viewers, after the send (or the except branch) for
\* snapshot[idx]: next viewer, or leave `async with` and go back to receive_text
BroadcastAdvance(p, holder, w) ==
    IF idx[p] < Len(snapshot[p])
    THEN /\ idx' = [idx EXCEPT ![p] = @ + 1]
         /\ lockHolder' = holder
         /\ lockWaiters' = w
         /\ pc' = [pc EXCEPT ![p] = "sending"]
    ELSE /\ idx' = idx
         /\ IF holder = p
            THEN /\ lockHolder' = HolderAfterRelease(w)
                 /\ lockWaiters' = WaitersAfterRelease(w)
                 /\ pc' = [pc EXCEPT ![p] = "receiving"]
            ELSE \* Lock.release() on a lock p does not hold raises RuntimeError
                 /\ lockHolder' = holder
                 /\ lockWaiters' = w
                 /\ pc' = [pc EXCEPT ![p] = "crashed"]

\* ---- broadcast_to_viewers: await v.send_text(message) for v = snapshot[idx];
\*      except Exception: await self.disconnect(v)
SendText(p) ==
    /\ pc[p] = "sending"
    /\ LET v == snapshot[p][idx[p]] IN
       IF SendOk(v)
       THEN /\ sendLog' = Append(sendLog, SendRecord(p, v, TRUE))
            /\ BroadcastAdvance(p, lockHolder, lockWaiters)
            /\ UNCHANGED <<viewers, publishers>>
       ELSE /\ sendLog' = Append(sendLog, SendRecord(p, v, FALSE))
            /\ IF LockFree
               THEN /\ viewers' = Deregister(viewers, v)
                    /\ publishers' = Deregister(publishers, v)
                    /\ BroadcastAdvance(p, lockHolder, lockWaiters)
               ELSE /\ lockWaiters' = Append(lockWaiters, p)
                    /\ pc' = [pc EXCEPT ![p] = "bc_dereg_wait"]
                    /\ UNCHANGED <<viewers, publishers, lockHolder, idx>>
    /\ UNCHANGED <<alive, data, snapshot, nrecv>>
    /\ UNCHANGED <<regAtBc, bcLog>>
    /\ UNCHANGED role
    /\ UNCHANGED pubVars

\* ---- disconnect: the blocked acquire returns; remove and release.  Called
\* from a handler's except branch (ws is its own connection) or from
\* broadcast_to_viewers' except branch (ws is the viewer whose send failed).
DisconnectGranted(t) ==
    /\ pc[t] \in {"dereg_wait", "bc_dereg_wait"}
    /\ Granted(t)
    /\ LET ws == IF pc[t] = "dereg_wait" THEN t ELSE snapshot[t][idx[t]] IN
       /\ viewers' = Deregister(viewers, ws)
       /\ publishers' = Deregister(publishers, ws)
    /\ IF pc[t] = "dereg_wait"
       THEN /\ lockHolder' = HolderAfterRelease(lockWaiters)
            /\ lockWaiters' = WaitersAfterRelease(lockWaiters)
            /\ pc' = [pc EXCEPT ![t] = "closed"]
            /\ UNCHANGED idx
       ELSE BroadcastAdvance(t, HolderAfterRelease(lockWaiters),
                             WaitersAfterRelease(lockWaiters))
    /\ UNCHANGED <<alive, data, snapshot, nrecv, sendLog>>
    /\ UNCHANGED <<regAtBc, bcLog>>
    /\ UNCHANGED role
    /\ UNCHANGED pubVars

RelayNext ==
    \/ \E c \in ConnIds : ConnectViewer(c)
    \/ \E c \in ConnIds : ConnectPublisher(c)
    \/ \E c \in ConnIds : RegisterGranted(c)
    \/ \E c \in ConnIds : Drop(c)
    \/ \E c \in ConnIds : RecvDisconnect(c)
    \/ \E c \in ConnIds : RecvOtherError(c)
    \/ \E c \in ConnIds : ViewerMessage(c)
    \/ \E p \in ConnIds : PublisherMessage(p)
    \/ \E p \in ConnIds : BroadcastGranted(p)
    \/ \E p \in ConnIds : SendText(p)
    \/ \E c \in ConnIds : DisconnectGranted(c)

\* =================================================== publisher (pi_sender.py)
MaxConfigured == 7
DefaultMaxFailures == 10
BackoffThreshold == 3
BackoffCap == 5
BreakerPause == 30

\* values MAX_CONSECUTIVE_FAILURES may be configured to
MaxFailureChoices == ((0 - 1)..MaxConfigured) \cup {DefaultMaxFailures}

\* HTTP status codes the relay may answer with
StatusCodes == {199, 200, 204, 299, 300, 404, 500}

\* what requests.post meets: an answer with a status, or a RequestException
Outcomes == [kind : {"status"}, code : StatusCodes]
            \cup [kind : {"connection_error", "timeout"}, code : {0}]
NoOutcome == [kind |-> "none", code |-> 0]

\* requests.ConnectionError and requests.Timeout derive from RequestException
IsRequestException(kind) == kind \in {"connection_error", "timeout"}

\* what the echo pin does after the trigger pulse: whether it rises within
\* 50 ms, whether it then falls within 50 ms, and the pulse length
Echoes == [rises : BOOLEAN, falls : BOOLEAN, pulse : {0, 1, 2}]

None == [isNone |-> TRUE, v |-> 0]
Some(x) == [isNone |-> FALSE, v |-> x]

\* read_distance: None on either timeout, else the distance of the pulse
\* (in units of pulse * SOUND_SPEED / 2)
read_distance(e) == IF ~e.rises \/ ~e.falls THEN None ELSE Some(e.pulse)

\* a payload whose quality tests `if d` instead of `if d is not None`
BuildPayloadTruthy(d) ==
    [distance_m |-> IF d.isNone THEN None ELSE Some(d.v),
     angle_deg |-> 0,
     quality |-> IF ~d.isNone /\ d.v # 0 THEN "ok" ELSE "no_echo"]

\* main: the payload dict (the timestamp is not modelled)
BuildPayload(d) ==
    [distance_m |-> IF d.isNone THEN None ELSE Some(d.v),
     angle_deg |-> 0,
     quality |-> IF ~d.isNone THEN "ok" ELSE "no_echo"]
NoPayload == [distance_m |-> None, angle_deg |-> 0, quality |-> "none"]

\* a publish_payload that catches requests.ConnectionError only
publish_payload_timeout_escapes(o) ==
    IF o.kind = "status"
    THEN [raised |-> FALSE, value |-> (o.code >= 200 /\ o.code < 300)]
    ELSE IF o.kind = "connection_error"
         THEN [raised |-> FALSE, value |-> FALSE]
         ELSE [raised |-> TRUE, value |-> FALSE]

\* a publish_payload whose status test is off by one at the upper end
publish_payload_300_ok(o) ==
    IF o.kind = "status"
    THEN [raised |-> FALSE, value |-> (o.code >= 200 /\ o.code <= 300)]
    ELSE IF IsRequestException(o.kind)
         THEN [raised |-> FALSE, value |-> FALSE]
         ELSE [raised |-> TRUE, value |-> FALSE]

\* publish_payload: what the call does with an outcome of requests.post:
\* returns a boolean, or lets an exception through
publish_payload(o) ==
    IF o.kind = "status"
    THEN [raised |-> FALSE, value |-> (o.code >= 200 /\ o.code < 300)]
    ELSE IF IsRequestException(o.kind)
         THEN [raised |-> FALSE, value |-> FALSE]
         ELSE [raised |-> TRUE, value |-> FALSE]

\* a loop that forgets to reset the counter on success
CounterKeptOnSuccess(isOk, cf) == IF isOk THEN cf ELSE cf + 1

\* main: the counter after `if ok: ... else: ...`
CounterAfter(isOk, cf) == IF isOk THEN 0 ELSE cf + 1

Min(a, b) == IF a < b THEN a ELSE b

BaseSleep == [unit |-> "SAMPLE_INTERVAL", n |-> 1]
Seconds(n) == [unit |-> "s", n |-> n]

\* a backoff without the cap
BackoffSleepUncapped(cf) ==
    IF cf >= BackoffThreshold THEN Seconds(cf) ELSE BaseSleep

\* main: the sleep of `if consecutive_failures >= 3: ... else: ...`
BackoffSleep(cf) ==
    IF cf >= BackoffThreshold THEN Seconds(Min(BackoffCap, cf)) ELSE BaseSleep

\* a breaker that trips one failure late
BreakerTripsLate(cf, max) == cf > max

\* main: `if consecutive_failures >= MAX_CONSECUTIVE_FAILURES`
BreakerTrips(cf, max) == cf >= max

\* a loop that does not look at the stop flag
LoopCondAlways(r) == TRUE

\* main: `while running`
LoopCond(r) == r

\* handle_sigterm: the new value of the stop flag
handle_sigterm(r) == FALSE

Bump(n) == Min(n + 1, 2)

InitPositions == {"setmode", "setup_trig", "setup_echo", "output_low", "settle",
                  "install_handlers"}
LoopPositions == {"loop_check", "acquire", "publish", "backoff", "breaker"}

PubInit ==
    /\ ppc = "setmode"
    /\ running = TRUE
    /\ consecutive_failures = 0
    /\ maxFailures \in MaxFailureChoices
    /\ pinsSetUp = 0
    /\ cleaned = FALSE
    /\ payload = NoPayload
    /\ outcome = NoOutcome
    /\ ok = FALSE
    /\ sleeps = <<>>
    /\ cfBefore = 0
    /\ cfAfter = 0
    /\ exitPath = "none"
    /\ afterStop = [cycles |-> 0, acquires |-> 0, publishes |-> 0]
    \* server.py, as constructed and with no connection made
    /\ viewers = <<>>
    /\ publishers = <<>>
    /\ lockHolder = NoTask
    /\ lockWaiters = <<>>
    /\ role = [c \in ConnIds |-> "none"]
    /\ pc = [c \in ConnIds |-> "connecting"]
    /\ alive = [c \in ConnIds |-> TRUE]
    /\ data = [p \in ConnIds |-> 0]
    /\ snapshot = [p \in ConnIds |-> <<>>]
    /\ idx = [p \in ConnIds |-> 0]
    /\ nrecv = [p \in ConnIds |-> 0]
    /\ sendLog = <<>>
    /\ regAtBc = [p \in ConnIds |-> <<>>]
    /\ bcLog = <<>>

\* ---- module level, lines 57-73: one GPIO call or the handler installation
\* succeeds
InitStep ==
    /\ ppc \in InitPositions
    /\ ppc' = CASE ppc = "setmode" -> "setup_trig"
                [] ppc = "setup_trig" -> "setup_echo"
                [] ppc = "setup_echo" -> "output_low"
                [] ppc = "output_low" -> "settle"
                [] ppc = "settle" -> "install_handlers"
                [] ppc = "install_handlers" -> "main"
    /\ pinsSetUp' = IF ppc \in {"setup_trig", "setup_echo"} THEN pinsSetUp + 1
                    ELSE pinsSetUp
    /\ UNCHANGED <<running, consecutive_failures, maxFailures, cleaned, payload,
                   outcome, ok, sleeps, cfBefore, cfAfter, exitPath, afterStop>>
    /\ UNCHANGED relayVars

\* ---- module level: a GPIO call raises; nothing at module level catches it
InitFail ==
    /\ ppc \in {"setmode", "setup_trig", "setup_echo", "output_low"}
    /\ ppc' = "exited"
    /\ exitPath' = "init_failure"
    /\ UNCHANGED <<running, consecutive_failures, maxFailures, pinsSetUp, cleaned,
                   payload, outcome, ok, sleeps, cfBefore, cfAfter, afterStop>>
    /\ UNCHANGED relayVars

\* ---- SIGINT / SIGTERM.  Before signal.signal has installed handle_sigterm
\* the default disposition ends the process; afterwards handle_sigterm runs.
Signal ==
    /\ ppc # "exited"
    /\ IF ppc \in InitPositions
       THEN /\ ppc' = "exited"
            /\ exitPath' = "early_signal"
            /\ UNCHANGED running
       ELSE /\ running' = handle_sigterm(running)
            /\ UNCHANGED <<ppc, exitPath>>
    /\ UNCHANGED <<consecutive_failures, maxFailures, pinsSetUp, cleaned, payload,
                   outcome, ok, sleeps, cfBefore, cfAfter, afterStop>>
    /\ UNCHANGED relayVars

\* ---- main, line 126-129: enter the try block
EnterMain ==
    /\ ppc = "main"
    /\ ppc' = "loop_check"
    /\ consecutive_failures' = 0
    /\ UNCHANGED <<running, maxFailures, pinsSetUp, cleaned, payload, outcome, ok,
                   sleeps, cfBefore, cfAfter, exitPath, afterStop>>
    /\ UNCHANGED relayVars

\* ---- main, line 130: `while running`
LoopCheck ==
    /\ ppc = "loop_check"
    /\ IF LoopCond(running)
       THEN /\ ppc' = "acquire"
            /\ sleeps' = <<>>
            /\ afterStop' = IF running THEN afterStop
                            ELSE [afterStop EXCEPT !.cycles = Bump(@)]
            /\ UNCHANGED exitPath
       ELSE /\ ppc' = "finally"
            /\ exitPath' = "stop_flag"
            /\ UNCHANGED <<sleeps, afterStop>>
    /\ UNCHANGED <<running, consecutive_failures, maxFailures, pinsSetUp, cleaned,
                   payload, outcome, ok, cfBefore, cfAfter>>
    /\ UNCHANGED relayVars

\* ---- main, lines 131-140: read_distance and build the payload
Acquire(e) ==
    /\ ppc = "acquire"
    /\ payload' = BuildPayload(read_distance(e))
    /\ ppc' = "publish"
    /\ afterStop' = IF running THEN afterStop
                    ELSE [afterStop EXCEPT !.acquires = Bump(@)]
    /\ UNCHANGED <<running, consecutive_failures, maxFailures, pinsSetUp, cleaned,
                   outcome, ok, sleeps, cfBefore, cfAfter, exitPath>>
    /\ UNCHANGED relayVars

\* ---- main, line 131: a GPIO call inside read_distance raises
AcquireFault ==
    /\ ppc = "acquire"
    /\ ppc' = "finally"
    /\ exitPath' = "sensor_exception"
    /\ UNCHANGED <<running, consecutive_failures, maxFailures, pinsSetUp, cleaned,
                   payload, outcome, ok, sleeps, cfBefore, cfAfter, afterStop>>
    /\ UNCHANGED relayVars

\* ---- main, lines 143-149: publish and count
Publish(o) ==
    /\ ppc = "publish"
    /\ outcome' = o
    /\ afterStop' = IF running THEN afterStop
                    ELSE [afterStop EXCEPT !.publishes = Bump(@)]
    /\ cfBefore' = consecutive_failures
    /\ IF publish_payload(o).raised
       THEN /\ ppc' = "finally"
            /\ exitPath' = "delivery_exception"
            /\ UNCHANGED <<ok, consecutive_failures, cfAfter>>
       ELSE /\ ok' = publish_payload(o).value
            /\ consecutive_failures' =
                   CounterAfter(publish_payload(o).value, consecutive_failures)
            /\ cfAfter' = CounterAfter(publish_payload(o).value, consecutive_failures)
            /\ ppc' = "backoff"
            /\ UNCHANGED exitPath
    /\ UNCHANGED <<running, maxFailures, pinsSetUp, cleaned, payload, sleeps>>
    /\ UNCHANGED relayVars

\* ---- main, lines 152-156: backoff or base sleep
Backoff ==
    /\ ppc = "backoff"
    /\ sleeps' = Append(sleeps, BackoffSleep(consecutive_failures))
    /\ ppc' = "breaker"
    /\ UNCHANGED <<running, consecutive_failures, maxFailures, pinsSetUp, cleaned,
                   payload, outcome, ok, cfBefore, cfAfter, exitPath, afterStop>>
    /\ UNCHANGED relayVars

\* a breaker that pauses and forgets to reset the counter
BreakerNoReset ==
    /\ ppc = "breaker"
    /\ IF BreakerTrips(consecutive_failures, maxFailures)
       THEN sleeps' = Append(sleeps, Seconds(BreakerPause))
       ELSE UNCHANGED sleeps
    /\ ppc' = "loop_check"
    /\ UNCHANGED <<running, consecutive_failures, maxFailures, pinsSetUp, cleaned,
                   payload, outcome, ok, cfBefore, cfAfter, exitPath, afterStop>>
    /\ UNCHANGED relayVars

\* ---- main, lines 159-162: the 30 s pause and the reset
Breaker ==
    /\ ppc = "breaker"
    /\ IF BreakerTrips(consecutive_failures, maxFailures)
       THEN /\ sleeps' = Append(sleeps, Seconds(BreakerPause))
            /\ consecutive_failures' = 0
       ELSE UNCHANGED <<sleeps, consecutive_failures>>
    /\ ppc' = "loop_check"
    /\ UNCHANGED <<running, maxFailures, pinsSetUp, cleaned, payload, outcome, ok,
                   cfBefore, cfAfter, exitPath, afterStop>>
    /\ UNCHANGED relayVars

\* ---- main, lines 164-171: finally: GPIO.cleanup(); then main returns or
\* the exception goes on and the process ends
Finally ==
    /\ ppc = "finally"
    /\ cleaned' = TRUE
    /\ ppc' = "exited"
    /\ UNCHANGED <<running, consecutive_failures, maxFailures, pinsSetUp, payload,
                   outcome, ok, sleeps, cfBefore, cfAfter, exitPath, afterStop>>
    /\ UNCHANGED relayVars

PubNext ==
    \/ InitStep
    \/ InitFail
    \/ Signal
    \/ EnterMain
    \/ LoopCheck
    \/ \E e \in Echoes : Acquire(e)
    \/ AcquireFault
    \/ \E o \in Outcomes : Publish(o)
    \/ Backoff
    \/ Breaker
    \/ Finally

\* the relay as constructed, the publisher process not started
RelayInit ==
    /\ viewers = <<>>
    /\ publishers = <<>>
    /\ lockHolder = NoTask
    /\ lockWaiters = <<>>
    /\ role = [c \in ConnIds |-> "none"]
    /\ pc = [c \in ConnIds |-> "connecting"]
    /\ alive = [c \in ConnIds |-> TRUE]
    /\ data = [p \in ConnIds |-> 0]
    /\ snapshot = [p \in ConnIds |-> <<>>]
    /\ idx = [p \in ConnIds |-> 0]
    /\ nrecv = [p \in ConnIds |-> 0]
    /\ sendLog = <<>>
    /\ regAtBc = [p \in ConnIds |-> <<>>]
    /\ bcLog = <<>>
    \* pi_sender.py, not started
    /\ ppc = "setmode"
    /\ running = TRUE
    /\ consecutive_failures = 0
    /\ maxFailures = DefaultMaxFailures
    /\ pinsSetUp = 0
    /\ cleaned = FALSE
    /\ payload = NoPayload
    /\ outcome = NoOutcome
    /\ ok = FALSE
    /\ sleeps = <<>>
    /\ cfBefore = 0
    /\ cfAfter = 0
    /\ exitPath = "none"
    /\ afterStop = [cycles |-> 0, acquires |-> 0, publishes |-> 0]

RelaySpec == RelayInit /\ [][RelayNext]_vars

\* the publisher alone, no connection made to the relay
PubSpec == PubInit /\ [][PubNext]_vars

\* asyncio runs every handler that is ready: each handler's next step is
\* taken if it stays enabled (the peers owe the relay nothing)
HandlerStep(c) ==
    \/ ConnectViewer(c)
    \/ ConnectPublisher(c)
    \/ RegisterGranted(c)
    \/ RecvDisconnect(c)
    \/ BroadcastGranted(c)
    \/ SendText(c)
    \/ DisconnectGranted(c)

RelayFairSpec == RelaySpec /\ \A c \in ConnIds : WF_vars(HandlerStep(c))

\* ===================================================================== claims

\* the sends of publisher handler p's latest broadcast, in order
BroadcastSends(p) == SelectSeq(sendLog, LAMBDA r : r.by = p /\ r.n = nrecv[p])

\* p is not inside broadcast_to_viewers and has broadcast at least once
BroadcastOver(p) ==
    /\ nrecv[p] >= 1
    /\ pc[p] \notin {"bc_wait", "sending", "bc_dereg_wait"}

\* C1: no deadlock between register, deregister and broadcast: no task waits
\* for the registry lock while the task that holds the lock is itself blocked
\* acquiring it (such a wait never ends).
C1_NoDeadlock ==
    \A t \in ConnIds : InList(lockWaiters, t) => ~InList(lockWaiters, lockHolder)

\* C2: disconnect isolation: once a send of a broadcast to viewer v has
\* failed, the broadcast still completes, every other viewer of its snapshot
\* has been sent the message, and v is no longer in the viewers registry.
SendFailed(p, v) ==
    \E i \in 1..Len(sendLog) :
        /\ sendLog[i].by = p /\ sendLog[i].n = nrecv[p]
        /\ sendLog[i].to = v /\ ~sendLog[i].ok

Isolated(p, v) ==
    /\ BroadcastOver(p)
    /\ ~InList(viewers, v)
    /\ \A u \in ConnIds :
          (InList(regAtBc[p], u) /\ u # v) =>
              \E i \in 1..Len(sendLog) :
                  sendLog[i].by = p /\ sendLog[i].n = nrecv[p] /\ sendLog[i].to = u

IsolationPending == \E p, v \in ConnIds : SendFailed(p, v) /\ ~Isolated(p, v)

C2_DisconnectIsolation == IsolationPending ~> ~IsolationPending

\* C3: fan-out: a broadcast in which no send failed made exactly one send to
\* each viewer registered when it took the lock, none to anybody else, and
\* every send carried the text received from the publisher.
C3_FanOut ==
    \A p \in ConnIds :
        (BroadcastOver(p) /\ \A i \in 1..Len(BroadcastSends(p)) : BroadcastSends(p)[i].ok)
        => /\ \A v \in ConnIds :
                 Cardinality({i \in 1..Len(BroadcastSends(p)) :
                                  BroadcastSends(p)[i].to = v})
                 = IF InList(regAtBc[p], v) THEN 1 ELSE 0
           /\ Len(BroadcastSends(p)) = Len(regAtBc[p])
           /\ \A i \in 1..Len(BroadcastSends(p)) : BroadcastSends(p)[i].text = data[p]

C3_Witness ==
    \E p \in ConnIds :
        /\ BroadcastOver(p)
        /\ Len(regAtBc[p]) >= 2
        /\ Len(BroadcastSends(p)) = Len(regAtBc[p])
        /\ \A i \in 1..Len(BroadcastSends(p)) : BroadcastSends(p)[i].ok

\* ------------------------------------------------------- publisher claims
\* a cycle of the loop has run to its end (the loop condition is next)
CycleDone == ppc = "loop_check" /\ sleeps # <<>>

\* C4 (as stated): the cycle in which a failed delivery brings the counter to
\* the configured maximum sleeps 30 seconds and nothing else, and resets the
\* counter to 0.
C4_BreakerPauseOnly ==
    (CycleDone /\ ~ok /\ cfAfter = maxFailures)
    => (sleeps = <<Seconds(30)>> /\ consecutive_failures = 0)

\* C4 (amended): the cycle in which a failed delivery brings the counter to
\* the configured maximum first sleeps min(5, counter) seconds (the base
\* interval when the counter is below 3), then sleeps 30 seconds, and resets
\* the counter to 0 before the next acquisition.
C4_BreakerAfterBackoff ==
    (CycleDone /\ ~ok /\ cfAfter = maxFailures)
    => /\ sleeps = << IF cfAfter >= 3
                      THEN Seconds(IF cfAfter < 5 THEN cfAfter ELSE 5)
                      ELSE BaseSleep,
                      Seconds(30) >>
       /\ consecutive_failures = 0

C4_Witness ==
    /\ CycleDone /\ ~ok /\ cfAfter = maxFailures /\ maxFailures > 5
    /\ sleeps = <<Seconds(5), Seconds(30)>>
    /\ consecutive_failures = 0

\* C5: a failed delivery increments the counter by exactly 1; the cycle then
\* sleeps the base interval first if the counter is below 3, and exactly
\* min(5, counter) seconds (3, 4, then 5) if it is at least 3 and below the
\* configured maximum.
C5_BackoffOnFailure ==
    /\ (ppc \in {"backoff", "breaker"} /\ ~ok)
       => (cfAfter = cfBefore + 1 /\ consecutive_failures = cfAfter)
    /\ (CycleDone /\ ~ok)
       => /\ cfAfter = cfBefore + 1
          /\ cfAfter < 3 => Head(sleeps) = BaseSleep
          /\ (cfAfter < 3 /\ cfAfter < maxFailures) => sleeps = <<BaseSleep>>
          /\ (cfAfter = 3 /\ cfAfter < maxFailures) => sleeps = <<Seconds(3)>>
          /\ (cfAfter = 4 /\ cfAfter < maxFailures) => sleeps = <<Seconds(4)>>
          /\ (cfAfter >= 5 /\ cfAfter < maxFailures) => sleeps = <<Seconds(5)>>

C5_Witness ==
    CycleDone /\ ~ok /\ cfAfter = 6 /\ cfAfter < maxFailures /\ sleeps = <<Seconds(5)>>

\* C6 (as stated): for any configured maximum, a cycle whose delivery succeeds
\* sets the counter to 0 and sleeps exactly the base interval.
C6_SuccessResetAnyMax ==
    (CycleDone /\ ok)
    => (cfAfter = 0 /\ consecutive_failures = 0 /\ sleeps = <<BaseSleep>>)

\* C6 (amended): for any configured maximum of at least 1 and any prior
\* counter value, a cycle whose delivery succeeds sets the counter to 0 and
\* sleeps exactly the base interval.
C6_SuccessReset ==
    (CycleDone /\ ok /\ maxFailures >= 1)
    => (cfAfter = 0 /\ consecutive_failures = 0 /\ sleeps = <<BaseSleep>>)

C6_Witness ==
    /\ CycleDone /\ ok /\ maxFailures >= 1 /\ cfBefore >= 3
    /\ consecutive_failures = 0 /\ sleeps = <<BaseSleep>>

\* C7: the loop never exits because of a delivery failure: a step leaves the
\* loop only at the loop condition with the stop flag set (or on an exception
\* of the sensor read, which is no delivery outcome); a delivery, whatever
\* its outcome, is followed by the sleeps, the sleeps by the loop condition,
\* and the loop condition with the flag unset by the next acquisition.
C7_NeverExitsOnFailure ==
    [][ /\ (ppc \in LoopPositions /\ ppc' \notin LoopPositions)
           => \/ ppc = "loop_check" /\ ~running
              \/ ppc = "acquire" /\ exitPath' = "sensor_exception"
        /\ (ppc = "publish" /\ ppc' # ppc) => ppc' = "backoff"
        /\ (ppc = "backoff" /\ ppc' # ppc) => ppc' = "breaker"
        /\ (ppc = "breaker" /\ ppc' # ppc) => ppc' = "loop_check"
        /\ (ppc = "loop_check" /\ running /\ ppc' # ppc) => ppc' = "acquire"
      ]_vars

\* a new cycle has begun right after the cycle that ended in the 30 s pause
C7_Witness ==
    /\ ppc = "acquire" /\ running
    /\ ~ok /\ outcome.kind = "timeout"
    /\ maxFailures >= 3 /\ cfAfter = maxFailures /\ consecutive_failures = 0

\* C8: publish_payload turns every outcome into a boolean: true exactly for a
\* 2xx status, false for every other status, transport error and timeout;
\* no delivery error reaches the main loop.
C8_DeliverIsBoolean ==
    /\ exitPath # "delivery_exception"
    /\ outcome.kind # "none"
       => (ok <=> (outcome.kind = "status" /\ outcome.code \in 200..299))

C8_Witness == ppc = "backoff" /\ outcome.kind = "timeout" /\ ~ok

\* C9: once the stop flag is set no cycle begins; at most the acquisition and
\* the delivery of the cycle in progress still run; the loop is left through
\* its condition with the flag set.
C9_StopWithinOneCycle ==
    /\ afterStop.cycles = 0
    /\ afterStop.acquires <= 1
    /\ afterStop.publishes <= 1
    /\ exitPath = "stop_flag" => ~running

C9_Witness ==
    /\ ppc = "exited" /\ exitPath = "stop_flag" /\ cleaned
    /\ afterStop.acquires = 1 /\ afterStop.publishes = 1 /\ Len(sleeps) = 2

\* C10: on every exit path after a sensor pin has been set up, GPIO cleanup
\* has been executed when the process ends.
C10_CleanupOnEveryExit == (ppc = "exited" /\ pinsSetUp >= 1) => cleaned


\* The handler of connection c has returned or was ended by an exception.
HandlerEnded(c) == pc[c] \in {"closed", "crashed"}

Registered(c) == InList(viewers, c) \/ InList(publishers, c)

\* C11: whenever a read on a connected relay connection fails, by a clean
\* disconnect or by any other receive error, on either endpoint, the handler
\* ends with that connection in neither registry.
C11_FailureDeregisters ==
    \A c \in ConnIds : HandlerEnded(c) => ~Registered(c)



\* The send_text calls made to viewer v for the message of broadcast b, a
\* record of bcLog.
SendsOf(b, v) ==
    SelectSeq(sendLog, LAMBDA r : r.by = b.by /\ r.n = b.n /\ r.to = v)

\* Viewer v joined between the broadcasts i and j of bcLog: it is not in the
\* list broadcast i found and it is in the list broadcast j found.  A broadcast
\* holds the lock from start to end and a registration needs it, so v's
\* registration took effect after broadcast i had completed and before
\* broadcast j started.
JoinedBetween(v, i, j) ==
    /\ i < j
    /\ ~InList(bcLog[i].reg, v)
    /\ InList(bcLog[j].reg, v)

StaysConnected(v) == alive[v] /\ pc[v] = "receiving"

LateJoinPending ==
    \E v \in ConnIds : \E j \in 1..Len(bcLog) : \E i \in 1..Len(bcLog) :
        /\ JoinedBetween(v, i, j)
        /\ StaysConnected(v)
        /\ SendsOf(bcLog[j], v) = <<>>

\* C12: a viewer that registers after the broadcast of M1 has completed and
\* before the broadcast of M2 starts, and stays connected, receives M2: a
\* late joiner that is waiting for M2 is eventually sent it.
C12_LateJoinerGetsNext == LateJoinPending ~> ~LateJoinPending

\* C12, the half that holds: such a viewer is never sent M1 and is sent M2 at
\* most once.
C12_NoReplay ==
    \A v \in ConnIds : \A j \in 1..Len(bcLog) : \A i \in 1..Len(bcLog) :
        JoinedBetween(v, i, j) =>
            /\ SendsOf(bcLog[i], v) = <<>>
            /\ Len(SendsOf(bcLog[j], v)) <= 1


\* The broadcasts of publisher p at positions a < b of bcLog: the relay
\* received the message of a before the message of b on p's connection.
ReceivedInOrder(p, a, b) ==
    /\ a < b
    /\ bcLog[a].by = p
    /\ bcLog[b].by = p

PayloadBuilt == payload # NoPayload

\* C14: in every payload the publisher builds, distance_m is null exactly
\* when quality is "no_echo" and a number exactly when quality is "ok", for
\* either outcome of the acquisition, and angle_deg is 0.0.
C14_PayloadShape ==
    PayloadBuilt =>
        /\ payload.quality \in {"ok", "no_echo"}
        /\ payload.distance_m.isNone <=> payload.quality = "no_echo"
        /\ ~payload.distance_m.isNone <=> payload.quality = "ok"
        /\ payload.angle_deg = 0

\* an echo of zero length has been measured: distance 0.0, quality "ok"
C14_Witness ==
    /\ ppc = "publish"
    /\ payload.distance_m = Some(0)
    /\ payload.quality = "ok"


\* Task t is inside disconnect(ws): from its own handler's except branch
\* (the disconnect path) or from broadcast_to_viewers' except branch (the
\* error path).
InDisconnect(t, ws) ==
    \/ pc[t] = "dereg_wait" /\ ws = t
    \/ pc[t] = "bc_dereg_wait" /\ ws = snapshot[t][idx[t]]

\* disconnect(ws) is running in two tasks at once, the error path of a
\* broadcast and the disconnect path of ws's own handler, and ws is still in
\* the registry
ConcurrentDisconnect ==
    \E ws \in ConnIds : \E p \in ConnIds :
        /\ p # ws
        /\ InDisconnect(ws, ws)
        /\ InDisconnect(p, ws)
        /\ Registered(ws)

\* C15: disconnect called from two tasks at the same time (an error path and
\* a disconnect path) leaves the connection absent from both lists: two
\* concurrent calls for a registered connection eventually end with it removed.
C15_ConcurrentDisconnectRemoves == ConcurrentDisconnect ~> ~ConcurrentDisconnect

\* C15, the half that holds: on the lists the relay reaches, removing a
\* connection twice, or one that is not there, gives what removing it once
\* gives, without the connection and with every other entry in place.
C15_DeregisterIdempotent ==
    \A c \in ConnIds : \A list \in {viewers, publishers} :
        /\ Deregister(Deregister(list, c), c) = Deregister(list, c)
        /\ ~InList(Deregister(list, c), c)
        /\ Deregister(list, c) = SelectSeq(list, LAMBDA x : x # c)


\* A step in which the receive_text of a viewer's handler returns a text.
ViewerFrame(c) == role[c] = "viewer" /\ nrecv'[c] = nrecv[c] + 1

\* C16: a message received from a viewer leaves both registries unchanged and
\* causes no send to any connection; only a message received on a publisher
\* connection triggers a broadcast: every step that makes a send is a step of
\* a publisher's handler for the message it received.
C16_ViewerMessagesDiscarded ==
    [][/\ \A c \in ConnIds :
             ViewerFrame(c) => /\ viewers' = viewers
                               /\ publishers' = publishers
                               /\ sendLog' = sendLog
                               /\ bcLog' = bcLog
       /\ sendLog' # sendLog =>
             /\ Len(sendLog') = Len(sendLog) + 1
             /\ role[sendLog'[Len(sendLog')].by] = "publisher"
             /\ nrecv[sendLog'[Len(sendLog')].by] >= 1
             /\ sendLog'[Len(sendLog')].text = data[sendLog'[Len(sendLog')].by]]_vars

\* a registered viewer has sent a text while another viewer and a publisher
\* are registered
C16_Witness ==
    \E c \in ConnIds :
        /\ role[c] = "viewer"
        /\ nrecv[c] >= 1
        /\ InList(viewers, c)
        /\ Len(viewers) >= 2
        /\ publishers # <<>>


\* how many times connection c is in the list
Occurrences(list, c) == Cardinality({i \in 1..Len(list) : list[i] = c})

\* the handler of c has come back from connect_viewer / connect_publisher
\* and has not come back from disconnect(c)
AcceptedNotDeregistered(c) ==
    pc[c] \notin {"connecting", "reg_wait", "closed"}

\* C17: publishers and viewers are disjoint, each connection is at most once
\* in the registry, and a connection is in viewers (publishers) only if it
\* was accepted on the viewer (publisher) endpoint and has not been
\* deregistered.
C17_RegistryInvariant ==
    \A c \in ConnIds :
        /\ Occurrences(viewers, c) + Occurrences(publishers, c) <= 1
        /\ InList(viewers, c) => role[c] = "viewer" /\ AcceptedNotDeregistered(c)
        /\ InList(publishers, c) => role[c] = "publisher" /\ AcceptedNotDeregistered(c)

\* both lists are populated and one connection has been deregistered
C17_Witness ==
    /\ Len(viewers) >= 2
    /\ publishers # <<>>
    /\ \E c \in ConnIds : pc[c] = "closed"


\* Handler p is between the snapshot of a broadcast and the end of its sends.
InBroadcast(p) == pc[p] \in {"sending", "bc_dereg_wait"}

\* A step that changes a registry list or reads the snapshot of a broadcast
\* (every snapshot read adds an entry to bcLog).
RegistryAccess ==
    viewers' # viewers \/ publishers' # publishers \/ bcLog' # bcLog

\* The task that takes the step holds the lock while it does: it found the
\* lock free and took it, or it is the holder the lock was handed to.
ActsUnderLock ==
    \/ lockHolder = NoTask /\ lockWaiters = <<>>
    \/ \E t \in ConnIds : Granted(t) /\ pc'[t] # pc[t]

\* C18: every mutation of viewers or publishers and every snapshot read
\* happens while the acting task holds the one registry lock; a task inside a
\* broadcast is the holder of the lock, so at most one is; and no registration
\* or deregistration takes effect between a broadcast's snapshot and the end
\* of its sends.
C18_OneLockDomain ==
    [][/\ RegistryAccess => ActsUnderLock
       /\ \A p \in ConnIds :
             InBroadcast(p) => /\ lockHolder = p
                               /\ viewers' = viewers
                               /\ publishers' = publishers
                               /\ snapshot[p] = viewers
       /\ \A p \in ConnIds : \A q \in ConnIds :
             (InBroadcast(p) /\ InBroadcast(q)) => p = q]_vars

\* a broadcast is part-way through its sends while one handler waits for the
\* lock to register and another waits for it to deregister
C18_Witness ==
    \E p \in ConnIds : \E c \in ConnIds : \E d \in ConnIds :
        /\ pc[p] = "sending"
        /\ pc[c] = "reg_wait"
        /\ pc[d] = "dereg_wait"


\* the sends at positions i and j of sendLog belong to one broadcast
SameBroadcast(i, j) ==
    sendLog[i].by = sendLog[j].by /\ sendLog[i].n = sendLog[j].n

\* C19: broadcasts are atomic with respect to each other: the sends of one
\* broadcast are consecutive in the order of all sends, never interleaved
\* with those of another, and any two viewers that are both sent two messages
\* A and B are sent them in the same relative order.
C19_BroadcastsAtomic ==
    /\ \A i \in 1..Len(sendLog) : \A k \in 1..Len(sendLog) : \A j \in 1..Len(sendLog) :
          (i < k /\ k < j /\ SameBroadcast(i, j)) => SameBroadcast(i, k)
    /\ \A i \in 1..Len(sendLog) : \A j \in 1..Len(sendLog) :
       \A k \in 1..Len(sendLog) : \A l \in 1..Len(sendLog) :
          (/\ sendLog[i].to = sendLog[j].to
           /\ sendLog[k].to = sendLog[l].to
           /\ SameBroadcast(i, k)
           /\ SameBroadcast(j, l)
           /\ ~SameBroadcast(i, j)) => (i < j <=> k < l)

\* two viewers have both been sent the messages of two different publishers
C19_Witness ==
    \E a \in 1..Len(bcLog) : \E b \in 1..Len(bcLog) :
    \E v \in ConnIds : \E w \in ConnIds :
        /\ bcLog[a].by # bcLog[b].by
        /\ v # w
        /\ SendsOf(bcLog[a], v) # <<>> /\ SendsOf(bcLog[a], w) # <<>>
        /\ SendsOf(bcLog[b], v) # <<>> /\ SendsOf(bcLog[b], w) # <<>>


\* C20: with a configured maximum M of at least 1 the consecutive-failure
\* counter is never negative and never above M, and whenever the loop
\* condition is evaluated it is strictly below M.
C20_CounterBounded ==
    maxFailures >= 1 =>
        /\ consecutive_failures >= 0
        /\ consecutive_failures <= maxFailures
        /\ ppc = "loop_check" => consecutive_failures < maxFailures

\* the counter stands at the default maximum, about to be reset
C20_Witness ==
    /\ ppc = "breaker"
    /\ maxFailures = DefaultMaxFailures
    /\ consecutive_failures = maxFailures

====
